---------------------------- MODULE Spec2Model ----------------------------
(***************************************************************************)
(* Model of src/src/table_extraction.py: the batch driver (main), the      *)
(* per-document pipeline (process_pdf, extract_tables, the two backends),  *)
(* the Table Quality Score, the normalizer, the output writer and the      *)
(* processing manifest.                                                    *)
(*                                                                         *)
(* Scores are kept in hundredths (0.56 is 56): compute_table_quality       *)
(* rounds to two decimals, so every score the program compares is a whole  *)
(* number of hundredths.                                                   *)
(***************************************************************************)
EXTENDS Integers, Sequences, FiniteSets, TLC

(***************************************************************************)
(* Bounds of the model.                                                    *)
(***************************************************************************)
MaxDocs == 2
MaxRuns == 2
MaxFaults == 1
MaxRows == 3
MaxPage == 2
MaxDocPages == 3
MaxShared == 1

(***************************************************************************)
(* Cells.  A cell is Python's None or a string; a string is modelled as    *)
(* the tuple of its characters, None as a tuple that is no string.         *)
(***************************************************************************)
None == <<"None">>

Whitespace == {" "}

\* str.lower() on one character
LowerChar(c) ==
  CASE c = "S" -> "s"
    [] c = "C" -> "c"
    [] c = "T" -> "t"
    [] c = "N" -> "n"
    [] c = "A" -> "a"
    [] OTHER -> c

\* str.lower()
Lower(s) == [i \in 1..Len(s) |-> LowerChar(s[i])]

RECURSIVE LStrip(_)
LStrip(s) == IF s # <<>> /\ Head(s) \in Whitespace THEN LStrip(Tail(s)) ELSE s

RECURSIVE RStrip(_)
RStrip(s) ==
  IF s # <<>> /\ s[Len(s)] \in Whitespace THEN RStrip(SubSeq(s, 1, Len(s) - 1)) ELSE s

\* str.strip()
Strip(s) == RStrip(LStrip(s))

\* str(cell): None becomes the four characters of "None"
Str(cell) == IF cell = None THEN <<"N", "o", "n", "e">> ELSE cell

RECURSIVE SumSeq(_)
SumSeq(s) == IF s = <<>> THEN 0 ELSE Head(s) + SumSeq(Tail(s))

Min(a, b) == IF a <= b THEN a ELSE b
Max(a, b) == IF a >= b THEN a ELSE b

(***************************************************************************)
(* Program constants.                                                      *)
(***************************************************************************)
TQS_THRESHOLD == 50
QUALITY_HIGH == 60
FIRST_PAGE_PENALTY == 40

HEADER_KEYWORDS ==
  { <<"t","a","b","l","e">>, <<"i","d">>, <<"n","a","m","e">>, <<"d","a","t","e">>,
    <<"y","e","a","r">>, <<"v","a","l","u","e">>,
    <<"c","a","t","e","g","o","r","y">>, <<"t","y","p","e">>,
    <<"s","p","e","c","i","e","s">>, <<"c","o","u","n","t">>,
    <<"t","o","t","a","l">>, <<"n","u","m","b","e","r">>,
    <<"d","e","s","c","r","i","p","t","i","o","n">>,
    <<"l","o","c","a","t","i","o","n">>, <<"s","i","t","e">> }

(***************************************************************************)
(* The Table Quality Score.                                                *)
(***************************************************************************)
\* A row that is None instead of a list of cells
NoneRow == << <<"NoneRow">> >>

\* cell is not None and str(cell).strip()
NonEmptyCell(cell) == cell # None /\ Strip(Str(cell)) # <<>>

Digits == {"0", "1", "2", "3", "4", "5", "6", "7", "8", "9"}

\* The characters \w matches
WordChars ==
  Digits \cup {"_", "S", "C", "T", "N", "A"} \cup
  {"a", "b", "c", "d", "e", "f", "g", "h", "i", "j", "k", "l", "m",
   "n", "o", "p", "q", "r", "s", "t", "u", "v", "w", "x", "y", "z"}

Punctuation == {".", ",", "%", "-"}

\* The characters the class [\w\s.,%-] matches
PlainChars == WordChars \cup Whitespace \cup Punctuation

\* The characters the class [\d.,%-] matches
NumericChars == Digits \cup Punctuation

\* re.search(r"[^\w\s.,%-]", str(cell))
SpecialCell(cell) ==
  LET s == Str(cell)
  IN  \E i \in 1..Len(s) : s[i] \notin PlainChars

\* re.match(r"^[\d.,%-]+$", str(cell).strip())
NumericCell(cell) ==
  LET s == Strip(Str(cell))
  IN  s # <<>> /\ \A i \in 1..Len(s) : s[i] \in NumericChars

TotalCells(table) == SumSeq([r \in 1..Len(table) |-> Len(table[r])])

NonEmptyInRow(row) == Cardinality({c \in 1..Len(row) : NonEmptyCell(row[c])})

NonEmptyCells(table) == SumSeq([r \in 1..Len(table) |-> NonEmptyInRow(table[r])])

SpecialInRow(row) ==
  Cardinality({c \in 1..Len(row) : NonEmptyCell(row[c]) /\ SpecialCell(row[c])})

NumericInRow(row) ==
  Cardinality({c \in 1..Len(row) : NonEmptyCell(row[c]) /\ NumericCell(row[c])})

\* compute_content_metrics: (total_cells, non_empty, special_chars, numeric)
compute_content_metrics(table) ==
  [total_cells   |-> TotalCells(table),
   non_empty     |-> NonEmptyCells(table),
   special_chars |-> SumSeq([r \in 1..Len(table) |-> SpecialInRow(table[r])]),
   numeric       |-> SumSeq([r \in 1..Len(table) |-> NumericInRow(table[r])])]

\* Metrics that take a row that is None for a row of one cell
MetricsRaiseNever(table) == FALSE

\* len(row) and the loop over its cells raise TypeError for a row that is None
MetricsRaise(table) == \E r \in 1..Len(table) : table[r] = NoneRow

\* compute_structure_metrics: 1 / (1 + pvariance(row lengths)) as the
\* fraction n^2 / (n^2 + n*sum(l^2) - sum(l)^2)
ConsistencyNum(table) == Len(table) * Len(table)

ConsistencyDen(table) ==
  LET n  == Len(table)
      s1 == SumSeq([r \in 1..n |-> Len(table[r])])
      s2 == SumSeq([r \in 1..n |-> Len(table[r]) * Len(table[r])])
  IN  n * n + n * s2 - s1 * s1

\* row.count("") > len(row) // 2
ClusteredRow(row) ==
  Cardinality({c \in 1..Len(row) : row[c] = <<>>}) > (Len(row) \div 2)

\* compute_empty_cell_clustering: the number of clustered rows (over len(table))
EmptyClusters(table) == Cardinality({r \in 1..Len(table) : ClusteredRow(table[r])})

\* compute_header_analysis: len(HEADER_KEYWORDS & first_row), capped at 3 (over 3)
HeaderMatches(table) ==
  IF table = <<>> \/ table[1] = <<>> THEN 0
  ELSE LET first_row == {Lower(Str(table[1][c])) : c \in {k \in 1..Len(table[1]) : table[1][k] # None}}
       IN  Min(3, Cardinality(HEADER_KEYWORDS \cap first_row))

\* round(num / den, 2 decimals) for a value already in hundredths: nearest
\* integer, ties to even (\div rounds down and % is never negative)
RoundHalfEven(num, den) ==
  LET q == num \div den
      r == num % den
  IN  IF 2 * r < den THEN q
      ELSE IF 2 * r > den THEN q + 1
      ELSE IF q % 2 = 0 THEN q ELSE q + 1

\* A score that is cut off at 1.0 only
ClampAbove(v) == Min(100, v)

\* max(0.0, min(1.0, ...))
Clamp(v) == Max(0, Min(100, v))

\* A guard that lets a single row through
NoRows(table) == Len(table) < 1

\* not table or len(table) < 2
TooFewRows(table) == Len(table) < 2

\* No penalty on any page
PagePenaltyNever(page_number) == 0

\* The penalty taken on every page
PagePenaltyAnyPage(page_number) == FIRST_PAGE_PENALTY

\* FIRST_PAGE_PENALTY if page_number == 1 else 0.0
PagePenalty(page_number) == IF page_number = 1 THEN FIRST_PAGE_PENALTY ELSE 0

\* A density that counts the cells with special characters out
DensityCountLessSpecial(metrics) == metrics.non_empty - metrics.special_chars

\* The count in 0.4 * (non_empty / total_cells)
DensityCount(metrics) == metrics.non_empty

\* compute_table_quality, in hundredths; an exception in a metric gives 0
compute_table_quality(table, page_number) ==
  IF TooFewRows(table) THEN 0
  ELSE IF MetricsRaise(table) THEN 0
  ELSE LET metrics == compute_content_metrics(table)
           tc  == metrics.total_cells
           n   == Len(table)
           cd  == ConsistencyDen(table)
           den == tc * cd * n
           num == 40 * DensityCount(metrics) * cd * n
                  + 30 * ConsistencyNum(table) * tc * n
                  + (10 * HeaderMatches(table) - PagePenalty(page_number)) * den
                  - 20 * EmptyClusters(table) * tc * cd
       IN  IF tc = 0 THEN 0
           ELSE Clamp(RoundHalfEven(num, den))

(***************************************************************************)
(* The input directory.  Each document is a fixed file: its pages (the     *)
(* text pdfplumber extracts from each and the grids extract_tables()       *)
(* finds on it) and the data frames camelot finds in lattice and in stream *)
(* mode.  The files do not change between runs.                            *)
(***************************************************************************)
X == <<"x">>
E == <<>>
Site == <<"S","i","t","e">>
Species == <<"S","p","e","c","i","e","s">>
Count == <<"C","o","u","n","t">>

\* Header Site/Species/Count, 30 cells of which 27 are non-empty (spec.md,
\* Scenario A)
GridA ==
  << <<Site, Species, Count>>,
     <<X, X, X>>, <<X, X, E>>, <<X, X, X>>, <<X, E, X>>, <<X, X, X>>,
     <<E, X, X>>, <<X, X, X>>, <<X, X, X>>, <<X, X, X>> >>

\* The same header over one row with an empty cell
GridB == << <<Site, Species, Count>>, <<X, X, E>> >>

\* A ragged grid with null cells, as pdfplumber gives for merged cells
GridRagged ==
  << <<Site, Species, Count>>, <<X, None, X>>, <<X, X>> >>

\* A sparse region that is no table
GridLow == << <<E, E>>, <<E, E>> >>

\* Data frames of camelot: rectangular grids of strings
FrameWide == << <<Site, Species, Count>>, <<X, X, X>> >>
FrameSquare == << <<Site, Species, Count>>, <<X, X, X>>, <<X, X, X>> >>
FrameSmall == << <<Site, Species>>, <<X, X>> >>

Text == <<"a", " ", "b">>
Blank == <<" ", " ">>

Stems == {"scan", "first", "lat", "strm", "mix"}

Doc(stem) ==
  CASE stem = "scan" ->
         [pages   |-> << [text |-> None,  tables |-> << GridB >>],
                         [text |-> Blank, tables |-> << GridB >>],
                         [text |-> Text,  tables |-> <<>>] >>,
          lattice |-> << [page |-> 2, df |-> FrameWide] >>,
          stream  |-> <<>>]
    [] stem = "first" ->
         [pages   |-> << [text |-> Text, tables |-> << GridA >>] >>,
          lattice |-> << [page |-> 2, df |-> FrameWide] >>,
          stream  |-> <<>>]
    [] stem = "lat" ->
         [pages   |-> << [text |-> Blank, tables |-> << GridLow >>],
                         [text |-> Text,  tables |-> << GridLow >>] >>,
          lattice |-> << [page |-> 1, df |-> FrameWide],
                         [page |-> 2, df |-> FrameSquare],
                         [page |-> 2, df |-> <<>>],
                         [page |-> 2, df |-> FrameSmall] >>,
          stream  |-> <<>>]
    [] stem = "strm" ->
         [pages   |-> << [text |-> Text, tables |-> <<>>] >>,
          lattice |-> << [page |-> 1, df |-> <<>>] >>,
          stream  |-> << [page |-> 2, df |-> FrameSquare] >>]
    [] stem = "mix" ->
         [pages   |-> << [text |-> Text, tables |-> << GridB >>],
                         [text |-> None, tables |-> << GridLow, GridRagged, GridB >>] >>,
          lattice |-> <<>>,
          stream  |-> <<>>]

\* The position of a file name in the directory
NameOrder(stem) ==
  CASE stem = "first" -> 1
    [] stem = "lat"   -> 2
    [] stem = "mix"   -> 3
    [] stem = "scan"  -> 4
    [] stem = "strm"  -> 5

\* The lists Path.glob can return: some documents of the catalogue, of
\* distinct stems, in ascending directory order, or two of them in
\* descending order
Listings ==
  {s \in UNION {[1..n -> Stems] : n \in 0..MaxDocs} :
     \/ \A i, j \in 1..Len(s) : i < j => NameOrder(s[i]) < NameOrder(s[j])
     \/ Len(s) = 2 /\ NameOrder(s[1]) > NameOrder(s[2])}

(***************************************************************************)
(* Classifier.                                                             *)
(***************************************************************************)
\* text and text.strip(): the page's text is neither None, empty nor blank
HasText(page) == page.text # None /\ Strip(page.text) # <<>>

\* A classifier that reads every page
EveryPage(pages) == 1..Len(pages)

\* pdf.pages[:2]
FirstPages(pages) == 1..Min(2, Len(pages))

\* Where the classifier can raise: NoFailure is nowhere, 0 is
\* pdfplumber.open, k is extract_text of page k
NoFailure == -1

\* The exception is raised: open fails, or the loop reaches the failing
\* page, which it does when no earlier page made it return
Raises(pages, fail) ==
  \/ fail = 0
  \/ /\ fail \in FirstPages(pages)
     /\ \A i \in 1..(fail - 1) : ~ HasText(pages[i])

\* The body of is_image_based_pdf over the document's pages
ImageBased(pages, fail) ==
  IF Raises(pages, fail) THEN TRUE
  ELSE ~ \E i \in FirstPages(pages) : HasText(pages[i])

\* is_image_based_pdf: err is an exception raised while opening the document
is_image_based_pdf(stem, err) ==
  ImageBased(Doc(stem).pages, IF err THEN 0 ELSE NoFailure)

(***************************************************************************)
(* Extraction backends.  A candidate is the dictionary the backends build. *)
(***************************************************************************)
\* The floor test done against the high threshold instead
PassesFloorWithHigh(score) == score >= QUALITY_HIGH

\* A floor test that discards nothing
PassesFloorAlways(score) == score >= 0

\* quality_score >= TQS_THRESHOLD
PassesFloor(score) == score >= TQS_THRESHOLD

\* The high threshold taken for the floor
IsHighAtFloor(t) == t.quality_score >= TQS_THRESHOLD

\* t["quality_score"] >= QUALITY_THRESHOLDS["high"]
IsHigh(t) == t.quality_score >= QUALITY_HIGH

KeptByFloor(t) == PassesFloor(t.quality_score)

\* The candidates of one page, in the order of page.extract_tables()
PageCandidates(page, page_num, time) ==
  SelectSeq([i \in 1..Len(page.tables) |->
               [page |-> page_num,
                table |-> page.tables[i],
                method |-> "pdfplumber",
                quality_score |-> compute_table_quality(page.tables[i], page_num),
                extraction_time |-> time]],
            KeptByFloor)

RECURSIVE PlumberFrom(_, _, _)
PlumberFrom(pages, page_num, time) ==
  IF page_num > Len(pages) THEN <<>>
  ELSE PageCandidates(pages[page_num], page_num, time)
       \o PlumberFrom(pages, page_num + 1, time)

\* The exceptions opening or reading a document can raise
Exceptions == {"FileNotFoundError", "PDFSyntaxError"}

\* except FileNotFoundError
PlumberCatches(e) == e = "FileNotFoundError"

\* extract_tables_with_pdfplumber when no exception escapes it
extract_tables_with_pdfplumber(stem, e, time) ==
  IF e = "none" THEN PlumberFrom(Doc(stem).pages, 1, time) ELSE <<>>

\* table.df.empty
FrameEmpty(df) == Len(df) = 0 \/ Len(df[1]) = 0

\* table.df.to_dict(orient="split")
ToSplitDict(df) ==
  [index   |-> [i \in 1..Len(df) |-> i - 1],
   columns |-> [j \in 1..Len(df[1]) |-> j - 1],
   data    |-> df]

CamelotKeeps(f) ==
  ~ FrameEmpty(f.df) /\ PassesFloor(compute_table_quality(f.df, f.page))

\* The candidates of one camelot.read_pdf result
FrameCandidates(frames, time) ==
  LET kept == SelectSeq(frames, CamelotKeeps)
  IN  [i \in 1..Len(kept) |->
         [page |-> kept[i].page,
          table |-> ToSplitDict(kept[i].df),
          method |-> "camelot",
          quality_score |-> compute_table_quality(kept[i].df, kept[i].page),
          extraction_time |-> time]]

\* extract_tables_with_camelot: read_pdf(flavor="lattice") only; every
\* exception is caught and leaves the list empty
extract_tables_with_camelot(stem, e, time) ==
  IF e = "none" THEN FrameCandidates(Doc(stem).lattice, time) ELSE <<>>

(***************************************************************************)
(* Normalizer and output writer.                                           *)
(***************************************************************************)
RECURSIVE MaxSeq(_)
MaxSeq(s) == IF Len(s) = 1 THEN s[1] ELSE Max(Head(s), MaxSeq(Tail(s)))

\* normalize_table_data; a row that is None raises in the comprehension and
\* the handler returns []
normalize_table_data(table) ==
  IF table = <<>> THEN <<>>
  ELSE IF \E r \in 1..Len(table) : table[r] = NoneRow THEN <<>>
  ELSE LET cleaned == [r \in 1..Len(table) |->
                         [c \in 1..Len(table[r]) |->
                            IF table[r][c] = None THEN <<>> ELSE Str(table[r][c])]]
           max_length == MaxSeq([r \in 1..Len(cleaned) |-> Len(cleaned[r])])
       IN  [r \in 1..Len(cleaned) |->
              cleaned[r] \o [k \in 1..(max_length - Len(cleaned[r])) |-> <<>>]]

ColNames == <<"0", "1", "2", "3", "4", "5", "6", "7", "8", "9">>

\* The data frame save_extracted_tables builds of a candidate; no frame
\* (<<>>) when the loop continues without one
ToDataFrame(t) ==
  IF t.method = "pdfplumber"
  THEN LET normalized_table == normalize_table_data(t.table)
       IN  IF normalized_table = <<>> THEN <<>>
           ELSE << [columns |-> [j \in 1..Len(normalized_table[1]) |-> ColNames[j]],
                    rows    |-> normalized_table] >>
  ELSE \* pd.DataFrame.from_dict of the split dictionary: its three keys
       \* become the columns, ValueError unless their lengths agree
       IF Len(t.table.index) # Len(t.table.columns) THEN <<>>
       ELSE << [columns |-> <<"index", "columns", "data">>,
                rows    |-> [i \in 1..Len(t.table.index) |->
                               <<t.table.index[i], t.table.columns[i], t.table.data[i]>>]] >>

Converts(t) == ToDataFrame(t) # <<>>

TableInfo(idx, t) ==
  LET df == ToDataFrame(t)[1]
  IN  [table_number      |-> idx,
       page_number       |-> t.page,
       extraction_method |-> t.method,
       quality_score     |-> t.quality_score,
       extraction_time   |-> t.extraction_time,
       num_rows          |-> Len(df.rows),
       num_columns       |-> Len(df.columns),
       column_names      |-> df.columns,
       table_data        |-> df.rows]

RECURSIVE TableInfos(_, _)
TableInfos(ts, idx) ==
  IF idx > Len(ts) THEN <<>>
  ELSE (IF Converts(ts[idx]) THEN <<TableInfo(idx, ts[idx])>> ELSE <<>>)
       \o TableInfos(ts, idx + 1)

EmptyMap == [k \in {} |-> 0]

\* An assignment that drops every other key
PutAlone(m, k, v) == [x \in {k} |-> v]

\* m[k] = v
Put(m, k, v) == [x \in DOMAIN m \cup {k} |-> IF x = k THEN v ELSE m[x]]

\* The JSON record of save_extracted_tables; jerr: "none", "open" (the file
\* cannot be opened: nothing changes) or "dump" (json.dump raises after the
\* file was opened for writing, which leaves a file that is no record)
PdfData(pdf_name, ts, time) ==
  [filename       |-> pdf_name,
   processed_date |-> time,
   num_tables     |-> Len(ts),
   tables         |-> TableInfos(ts, 1),
   complete       |-> TRUE]

WriteJson(files, pdf_name, ts, time, jerr) ==
  CASE jerr = "none" -> Put(files, pdf_name, PdfData(pdf_name, ts, time))
    [] jerr = "open" -> files
    [] jerr = "dump" -> Put(files, pdf_name,
                            [filename |-> pdf_name, processed_date |-> time,
                             num_tables |-> Len(ts), tables |-> <<>>,
                             complete |-> FALSE])

\* df.to_csv for every table that got a data frame, when save_csv
RECURSIVE WriteCsv(_, _, _, _, _)
WriteCsv(files, pdf_name, ts, idx, save_csv) ==
  IF idx > Len(ts) \/ ~ save_csv THEN files
  ELSE WriteCsv(IF Converts(ts[idx])
                THEN Put(files, <<pdf_name, idx>>, ToDataFrame(ts[idx])[1])
                ELSE files,
                pdf_name, ts, idx + 1, save_csv)

(***************************************************************************)
(* Manifest entries and outcomes.                                          *)
(***************************************************************************)
Null == "null"

\* A scanned entry that names a backend
ScannedEntryWithMethod(pdf_name, time) ==
  [filename          |-> pdf_name,
   processed_date    |-> time,
   is_scanned        |-> TRUE,
   has_tables        |-> FALSE,
   num_tables        |-> 0,
   extraction_method |-> "pdfplumber",
   quality_scores    |-> <<>>,
   saved_files       |-> <<>>,
   success           |-> FALSE]

\* process_pdf, the entry of a scanned document
ScannedEntry(pdf_name, time) ==
  [filename          |-> pdf_name,
   processed_date    |-> time,
   is_scanned        |-> TRUE,
   has_tables        |-> FALSE,
   num_tables        |-> 0,
   extraction_method |-> Null,
   quality_scores    |-> <<>>,
   saved_files       |-> <<>>,
   success           |-> FALSE]

\* process_pdf, the status of a text-bearing document; saved_files is None
\* (<<>>) or one dictionary
TextStatus(pdf_name, high_quality_tables, time) ==
  [filename          |-> pdf_name,
   processed_date    |-> time,
   is_scanned        |-> FALSE,
   has_tables        |-> high_quality_tables # <<>>,
   num_tables        |-> Len(high_quality_tables),
   extraction_method |-> IF high_quality_tables # <<>>
                         THEN high_quality_tables[1].method ELSE Null,
   quality_scores    |-> [i \in 1..Len(high_quality_tables) |->
                            high_quality_tables[i].quality_score],
   saved_files       |-> IF high_quality_tables # <<>>
                         THEN << [json |-> pdf_name,
                                  csv  |-> [i \in 1..Len(high_quality_tables) |->
                                              <<pdf_name, i>>]] >>
                         ELSE <<>>,
   success           |-> TRUE]

\* main, the entry of a document whose processing raised
ErrorEntry(pdf_name, time, e) ==
  [filename       |-> pdf_name,
   processed_date |-> time,
   error          |-> e,
   success        |-> FALSE]

\* Skipping only the documents whose entry reports success
ShouldSkipSuccessful(m, pdf_name, force) ==
  pdf_name \in DOMAIN m /\ m[pdf_name].success /\ ~ force

\* main: pdf_name in manifest and not args.force
ShouldSkip(m, pdf_name, force) == pdf_name \in DOMAIN m /\ ~ force

\* Counting every successful outcome as processed
CountsAsProcessedOnSuccess(status) == status.success

\* main: if status["has_tables"]
CountsAsProcessed(status) == status.has_tables

\* A failure counted as processed as well
CountFailedAndProcessed(s) == [s EXCEPT !.failed = @ + 1, !.processed = @ + 1]

\* main: stats["failed"] += 1
CountFailed(s) == [s EXCEPT !.failed = @ + 1]

\* A handler for FileNotFoundError only
MainCatchesNotFound(e) == e = "FileNotFoundError"

\* main: except Exception
MainCatches(e) == e \in Exceptions

(***************************************************************************)
(* State.                                                                  *)
(***************************************************************************)
VARIABLES
  pdf_files,        \* the documents of the input directory, in glob order
  manifest_exists,  \* whether processed_manifest.json exists
  disk_manifest,    \* its content
  json_files,       \* the JSON records under tables/json, by document
  csv_files,        \* the CSV files under tables/csv, by (document, table)
  args,             \* --force and --save-csv of the current run
  manifest,         \* main's in-memory manifest
  stats,            \* main's counters
  idx,              \* position of the for loop in pdf_files
  pc,               \* the statement main or process_pdf is at
  tables,           \* extract_tables' list of candidates
  exc,              \* the exception propagating out of process_pdf
  now,              \* datetime.now(), in runs
  nfaults,          \* the I/O errors the environment has raised so far
  attempt,          \* what happened to the document last visited (collected:
                    \* the list extract_tables returned)
  runlog,           \* what happened in the current run
  scorer,           \* a grid handed to the scorer, the backend and the
                    \* normalizer on its own, and what they returned
  classifier,       \* a document handed to is_image_based_pdf on its own
  manifest_file,    \* processed_manifest.json as two overlapping runs see it
  workers           \* the two overlapping runs of main

driver ==
  <<pdf_files, manifest_exists, disk_manifest, json_files, csv_files, args,
    manifest, stats, idx, pc, tables, exc, now, nfaults, attempt, runlog>>

aside == <<scorer, classifier, manifest_file, workers>>

vars == <<driver, aside>>

NoAttempt ==
  [stem |-> Null, state |-> "none", calls |-> <<>>, cls |-> <<>>,
   collected |-> <<>>,
   perr |-> "notcalled", ferr |-> "notcalled", werr |-> "notcalled"]

NewRunlog(loaded, snapshot) ==
  [invoked |-> {}, outcome |-> EmptyMap, visited |-> <<>>, saved |-> FALSE,
   loaded |-> loaded, prev |-> snapshot,
   wfailed |-> {}, wrote_json |-> {}, wrote_csv |-> {}]

ZeroStats == [processed |-> 0, skipped |-> 0, failed |-> 0, no_tables |-> 0]

NoScorer ==
  [step |-> "idle", grid |-> <<>>, score |-> <<>>, clusters |-> 0, kept |-> <<>>,
   normalized |-> <<>>, other |-> <<>>, other_score |-> <<>>]

NoClassifier ==
  [step |-> "idle", pages |-> <<>>, fail |-> NoFailure, raised |-> FALSE,
   scanned |-> FALSE]

\* The two runs of main that overlap
Workers == {1, 2}

\* A run that has not started, and one that has stopped
NoWorker == [pc |-> "idle", manifest |-> EmptyMap, idx |-> 1, early |-> FALSE]

Stopped(how) == [NoWorker EXCEPT !.pc = how]

\* json.dump(manifest, f, indent=2) writes one line per field of an entry,
\* between the line of its key and the line of its closing brace; lengths
\* of files are measured in these lines
EntryLines(entry) == Cardinality(DOMAIN entry) + 2

RECURSIVE SumLines(_, _)
SumLines(m, keys) ==
  IF keys = {} THEN 0
  ELSE LET k == CHOOSE x \in keys : TRUE
       IN  EntryLines(m[k]) + SumLines(m, keys \ {k})

Lines(m) == IF DOMAIN m = {} THEN 1 ELSE 2 + SumLines(m, DOMAIN m)

\* processed_manifest.json: absent, empty (opened for writing, nothing
\* written), complete (the JSON text of entries) or torn (no JSON text).
\* prior is the file before the runs, saving whether a run has opened it
\* for writing, writer the run whose json.dump returned last
Absent == [state |-> "absent", entries |-> EmptyMap, size |-> 0]

Complete(m) == [state |-> "complete", entries |-> m, size |-> Lines(m)]

Torn(n) == [state |-> "torn", entries |-> EmptyMap, size |-> n]

Truncated == [state |-> "empty", entries |-> EmptyMap, size |-> 0]

FileWith(content, prior, saving, writer) ==
  [state |-> content.state, entries |-> content.entries, size |-> content.size,
   prior |-> prior, saving |-> saving, writer |-> writer]

NoFile == FileWith(Absent, Absent, FALSE, 0)

\* Nothing has run yet
Quiescent ==
  /\ manifest_exists = FALSE
  /\ disk_manifest = EmptyMap
  /\ json_files = EmptyMap
  /\ csv_files = EmptyMap
  /\ args = [force |-> FALSE, save_csv |-> FALSE]
  /\ manifest = EmptyMap
  /\ stats = ZeroStats
  /\ idx = 1
  /\ pc = "idle"
  /\ tables = <<>>
  /\ exc = "none"
  /\ now = 0
  /\ nfaults = 0
  /\ attempt = NoAttempt
  /\ runlog = NewRunlog(EmptyMap, [run |-> 0, exists |-> FALSE, disk |-> EmptyMap,
                                   json |-> EmptyMap, csv |-> EmptyMap])

\* No overlapping runs
Alone ==
  /\ manifest_file = NoFile
  /\ workers = [p \in Workers |-> NoWorker]

Init ==
  /\ pdf_files \in Listings
  /\ Quiescent
  /\ scorer = NoScorer
  /\ classifier = NoClassifier
  /\ Alone

\* load_manifest: a missing file is an empty manifest
load_manifest == IF manifest_exists THEN disk_manifest ELSE EmptyMap

pdf_name == pdf_files[idx]

InLoop == pc = "loop" /\ idx <= Len(pdf_files)

\* The environment raises an I/O error (failed) or not
Fault(failed) ==
  /\ failed => nfaults < MaxFaults
  /\ nfaults' = IF failed THEN nfaults + 1 ELSE nfaults

(***************************************************************************)
(* main, up to the for loop: parse the arguments, load the manifest, list  *)
(* the directory and return when it holds no document.                     *)
(***************************************************************************)
StartRun(force, save_csv) ==
  /\ pc \in {"idle", "done"}
  /\ now < MaxRuns
  /\ now' = now + 1
  /\ args' = [force |-> force, save_csv |-> save_csv]
  /\ manifest' = load_manifest
  /\ stats' = ZeroStats
  /\ idx' = 1
  /\ pc' = IF pdf_files = <<>> THEN "done" ELSE "loop"
  /\ attempt' = NoAttempt
  /\ runlog' = NewRunlog(load_manifest,
                         [run |-> now, exists |-> manifest_exists,
                          disk |-> disk_manifest, json |-> json_files,
                          csv |-> csv_files])
  /\ UNCHANGED <<aside, pdf_files, manifest_exists, disk_manifest, json_files, csv_files,
                 tables, exc, nfaults>>

\* main: the document is in the manifest and --force is not given
Skip ==
  /\ InLoop
  /\ ShouldSkip(manifest, pdf_name, args.force)
  /\ stats' = [stats EXCEPT !.skipped = @ + 1]
  /\ idx' = idx + 1
  /\ attempt' = [NoAttempt EXCEPT !.stem = pdf_name, !.state = "skipped"]
  /\ runlog' = [runlog EXCEPT !.visited = Append(@, pdf_name)]
  /\ UNCHANGED <<aside, pdf_files, manifest_exists, disk_manifest, json_files, csv_files,
                 args, manifest, pc, tables, exc, now, nfaults>>

\* main calls process_pdf, which classifies the document; a scanned document
\* gets its entry and process_pdf returns it
Classify(err) ==
  /\ InLoop
  /\ ~ ShouldSkip(manifest, pdf_name, args.force)
  /\ LET scanned == is_image_based_pdf(pdf_name, err)
         started == [NoAttempt EXCEPT !.stem = pdf_name,
                                      !.calls = <<"is_image_based_pdf">>,
                                      !.cls = <<scanned>>]
         log     == [runlog EXCEPT !.visited = Append(@, pdf_name),
                                   !.invoked = @ \cup {pdf_name}]
     IN  IF scanned
         THEN /\ manifest' = Put(manifest, pdf_name, ScannedEntry(pdf_name, now))
              /\ stats' = [stats EXCEPT !.no_tables = @ + 1]
              /\ idx' = idx + 1
              /\ pc' = "loop"
              /\ attempt' = [started EXCEPT !.state = "returned"]
              /\ runlog' = [log EXCEPT !.outcome =
                              Put(@, pdf_name, ScannedEntry(pdf_name, now))]
         ELSE /\ pc' = "extract"
              /\ attempt' = [started EXCEPT !.state = "running"]
              /\ runlog' = log
              /\ UNCHANGED <<manifest, stats, idx>>
  /\ tables' = <<>>
  /\ Fault(err)
  /\ UNCHANGED <<aside, pdf_files, manifest_exists, disk_manifest, json_files, csv_files,
                 args, exc, now>>

\* extract_tables classifies the document again and returns no candidate
\* for a scanned one
ExtractClassify(err) ==
  /\ pc = "extract"
  /\ LET scanned == is_image_based_pdf(pdf_name, err)
     IN  /\ pc' = IF scanned THEN "finish" ELSE "primary"
         /\ attempt' = [attempt EXCEPT !.calls = Append(@, "is_image_based_pdf"),
                                       !.cls = Append(@, scanned)]
  /\ Fault(err)
  /\ UNCHANGED <<aside, pdf_files, manifest_exists, disk_manifest, json_files, csv_files,
                 args, manifest, stats, idx, tables, exc, now, runlog>>

\* extract_tables calls the primary backend; an exception it does not catch
\* propagates out of extract_tables and process_pdf
Primary(e) ==
  /\ pc = "primary"
  /\ attempt' = [attempt EXCEPT !.calls = Append(@, "pdfplumber"), !.perr = e]
  /\ Fault(e # "none")
  /\ IF e # "none" /\ ~ PlumberCatches(e)
     THEN /\ exc' = e
          /\ pc' = "raised"
          /\ UNCHANGED tables
     ELSE /\ tables' = extract_tables_with_pdfplumber(pdf_name, e, now)
          /\ pc' = IF tables' = <<>> THEN "fallback" ELSE "finish"
          /\ UNCHANGED exc
  /\ UNCHANGED <<aside, pdf_files, manifest_exists, disk_manifest, json_files, csv_files,
                 args, manifest, stats, idx, now, runlog>>

\* extract_tables calls the fallback backend, which catches every exception
Fallback(e) ==
  /\ pc = "fallback"
  /\ attempt' = [attempt EXCEPT !.calls = Append(@, "camelot_lattice"), !.ferr = e]
  /\ Fault(e # "none")
  /\ tables' = extract_tables_with_camelot(pdf_name, e, now)
  /\ pc' = "finish"
  /\ UNCHANGED <<aside, pdf_files, manifest_exists, disk_manifest, json_files, csv_files,
                 args, manifest, stats, idx, exc, now, runlog>>

\* process_pdf, steps 3 to 5: keep the high-quality tables, write them and
\* return the status; main counts the document
Finish(jerr) ==
  /\ pc = "finish"
  /\ LET high_quality_tables == SelectSeq(tables, IsHigh)
         status == TextStatus(pdf_name, high_quality_tables, now)
         saving == high_quality_tables # <<>>
     IN  /\ jerr # "none" => saving
         /\ json_files' = IF saving
                          THEN WriteJson(json_files, pdf_name, high_quality_tables, now, jerr)
                          ELSE json_files
         /\ csv_files' = IF saving
                         THEN WriteCsv(csv_files, pdf_name, high_quality_tables, 1,
                                       args.save_csv)
                         ELSE csv_files
         /\ stats' = IF CountsAsProcessed(status)
                     THEN [stats EXCEPT !.processed = @ + 1]
                     ELSE [stats EXCEPT !.no_tables = @ + 1]
         /\ attempt' = [attempt EXCEPT
                          !.state = "returned",
                          !.collected = tables,
                          !.calls = IF saving THEN Append(@, "save_extracted_tables") ELSE @,
                          !.werr = IF saving THEN jerr ELSE @]
         /\ runlog' = [runlog EXCEPT
                         !.outcome = Put(@, pdf_name, status),
                         !.wfailed = IF jerr # "none" THEN @ \cup {pdf_name} ELSE @,
                         !.wrote_json = IF saving /\ jerr # "open"
                                        THEN @ \cup {pdf_name} ELSE @,
                         !.wrote_csv = @ \cup (DOMAIN csv_files' \ DOMAIN csv_files)
                                         \cup {k \in DOMAIN csv_files :
                                                 saving /\ args.save_csv /\ k[1] = pdf_name
                                                 /\ k[2] <= Len(high_quality_tables)
                                                 /\ Converts(high_quality_tables[k[2]])}]
  /\ Fault(jerr # "none")
  /\ idx' = idx + 1
  /\ pc' = "loop"
  /\ tables' = <<>>
  /\ UNCHANGED <<aside, pdf_files, manifest_exists, disk_manifest, args, manifest, exc, now>>

\* main: an exception out of process_pdf is caught, counted and recorded; one
\* the handler does not catch ends the process with a traceback
Handle ==
  /\ pc = "raised"
  /\ IF MainCatches(exc)
     THEN /\ stats' = CountFailed(stats)
          /\ manifest' = Put(manifest, pdf_name, ErrorEntry(pdf_name, now, exc))
          /\ idx' = idx + 1
          /\ pc' = "loop"
          /\ exc' = "none"
     ELSE /\ pc' = "aborted"
          /\ UNCHANGED <<stats, manifest, idx, exc>>
  /\ attempt' = [attempt EXCEPT !.state = "raised"]
  /\ tables' = <<>>
  /\ UNCHANGED <<aside, pdf_files, manifest_exists, disk_manifest, json_files, csv_files,
                 args, now, nfaults, runlog>>

\* main, after the loop: save_manifest, run to its end by a run that is alone
\* (SpecOverlap follows its open and its json.dump apart)
SaveManifest ==
  /\ pc = "loop"
  /\ idx > Len(pdf_files)
  /\ disk_manifest' = manifest
  /\ manifest_exists' = TRUE
  /\ pc' = "done"
  /\ runlog' = [runlog EXCEPT !.saved = TRUE]
  /\ UNCHANGED <<aside, pdf_files, json_files, csv_files, args, manifest, stats, idx,
                 tables, exc, now, nfaults, attempt>>

Next ==
  \/ \E force, save_csv \in BOOLEAN : StartRun(force, save_csv)
  \/ Skip
  \/ \E err \in BOOLEAN : Classify(err)
  \/ \E err \in BOOLEAN : ExtractClassify(err)
  \/ \E e \in {"none"} \cup Exceptions : Primary(e)
  \/ \E e \in {"none", "PDFSyntaxError"} : Fallback(e)
  \/ \E jerr \in {"none", "open", "dump"} : Finish(jerr)
  \/ Handle
  \/ SaveManifest

Spec == Init /\ [][Next]_vars

(***************************************************************************)
(* The scorer, the primary backend's filter and the normalizer applied to  *)
(* one grid: the functions are pure, so the grid is the only input.        *)
(***************************************************************************)
Num == <<"1", "2">>
Bang == <<"a", "#">>

\* The rows a grid is made of: a header, full and sparse rows, rows with
\* null and blank cells, a short row, an empty row, a row with numeric and
\* special-character cells, and a row that is None
Rows ==
  { <<Site, Species, Count>>, <<X, X, X>>, <<X, E, E>>, <<None, None, X>>,
    <<Blank, Blank, X>>, <<X, X>>, <<>>, <<Num, Bang, X>>, NoneRow }

XRun(n) == [i \in 1..n |-> X]

\* Two rows of 41 cells under the full header, one cell empty
GridLong == << <<Site, Species, Count>> \o XRun(38), XRun(40) \o <<E>> >>

Grids == UNION {[1..n -> Rows] : n \in 0..MaxRows} \cup {GridLong}

\* The contents put in place of a cell
Contents == {X, Num, Bang}

\* A document with text on every page and the grid, followed by a second
\* grid, among the tables of every page
PagesWith(grid) ==
  [p \in 1..MaxPage |-> [text |-> Text, tables |-> <<grid, GridRagged>>]]

InitScore ==
  /\ pdf_files = <<>>
  /\ Quiescent
  /\ scorer \in {[NoScorer EXCEPT !.step = "input", !.grid = g] : g \in Grids}
  /\ classifier = NoClassifier
  /\ Alone

\* compute_table_quality(grid, page_number) for every page number, and the
\* number of rows compute_empty_cell_clustering counts on the way
ScoreGrid ==
  /\ scorer.step = "input"
  /\ scorer' = [scorer EXCEPT
                  !.step = "scored",
                  !.clusters = IF TooFewRows(scorer.grid) \/ MetricsRaise(scorer.grid)
                               THEN 0 ELSE EmptyClusters(scorer.grid),
                  !.score = [p \in 1..MaxPage |-> compute_table_quality(scorer.grid, p)]]
  /\ UNCHANGED <<driver, classifier, manifest_file, workers>>

\* extract_tables_with_pdfplumber on a document holding the grid
ExtractPages ==
  /\ scorer.step = "scored"
  /\ scorer' = [scorer EXCEPT
                  !.step = "extracted",
                  !.kept = PlumberFrom(PagesWith(scorer.grid), 1, 0)]
  /\ UNCHANGED <<driver, classifier, manifest_file, workers>>

\* normalize_table_data(grid)
NormalizeGrid ==
  /\ scorer.step = "extracted"
  /\ scorer' = [scorer EXCEPT
                  !.step = "normalized",
                  !.normalized = normalize_table_data(scorer.grid)]
  /\ UNCHANGED <<driver, classifier, manifest_file, workers>>

\* The cell is not empty and, in the first row, not a header keyword
Replaceable(grid, r, c) ==
  /\ grid[r] # NoneRow
  /\ c \in 1..Len(grid[r])
  /\ NonEmptyCell(grid[r][c])
  /\ r = 1 => Lower(Str(grid[r][c])) \notin HEADER_KEYWORDS

\* compute_table_quality on the grid with one non-empty cell given another
\* non-empty content
ScoreOther(r, v) ==
  /\ scorer.step = "scored"
  /\ r \in 1..Len(scorer.grid)
  /\ \E c \in 1..Len(scorer.grid[r]) :
        /\ Replaceable(scorer.grid, r, c)
        /\ scorer.grid[r][c] # v
        /\ LET other == [scorer.grid EXCEPT ![r][c] = v]
           IN  scorer' = [scorer EXCEPT
                            !.step = "varied",
                            !.other = other,
                            !.other_score =
                               [p \in 1..MaxPage |-> compute_table_quality(other, p)]]
  /\ UNCHANGED <<driver, classifier, manifest_file, workers>>

NextScore ==
  \/ ScoreGrid
  \/ ExtractPages
  \/ NormalizeGrid
  \/ \E r \in 1..MaxRows, v \in Contents : ScoreOther(r, v)

SpecScore == InitScore /\ [][NextScore]_vars

(***************************************************************************)
(* The classifier on its own: is_image_based_pdf applied to a document of  *)
(* up to MaxDocPages pages, with or without a failure of pdfplumber.       *)
(***************************************************************************)
\* What page.extract_text() returns: None, "", blanks, or words
PageTexts == {None, E, Blank, Text}

PageLists ==
  UNION {[1..n -> {[text |-> t, tables |-> <<>>] : t \in PageTexts}] :
           n \in 0..MaxDocPages}

\* open fails (0), extract_text of some page fails, or nothing fails
Failures == {NoFailure} \cup 0..MaxDocPages

InitClassify ==
  /\ pdf_files = <<>>
  /\ Quiescent
  /\ scorer = NoScorer
  /\ classifier \in {[NoClassifier EXCEPT !.step = "input", !.pages = ps,
                                          !.fail = f] :
                       ps \in PageLists, f \in Failures}
  /\ Alone

\* is_image_based_pdf(pdf_path)
ClassifyPages ==
  /\ classifier.step = "input"
  /\ classifier' = [classifier EXCEPT
                      !.step = "classified",
                      !.raised = Raises(classifier.pages, classifier.fail),
                      !.scanned = ImageBased(classifier.pages, classifier.fail)]
  /\ UNCHANGED <<driver, scorer, manifest_file, workers>>

NextClassify == ClassifyPages

SpecClassify == InitClassify /\ [][NextClassify]_vars

(***************************************************************************)
(* Two runs of main over one manifest file.  Each run loads the file,      *)
(* visits the documents of the directory with its own in-memory manifest,  *)
(* and saves: save_manifest opens the file for writing, which truncates    *)
(* it, and json.dump then writes the text.  A run can be terminated at any *)
(* of these points.  Only the manifest is followed: the outputs under      *)
(* tables/ are left out, and neither run is given --force.                 *)
(***************************************************************************)
\* The manifest an earlier run over the document "scan" has saved
EarlierManifest == Put(EmptyMap, "scan", ScannedEntry("scan", 0))

InitOverlap ==
  /\ pdf_files \in {s \in Listings : Len(s) <= MaxShared}
  /\ Quiescent
  /\ scorer = NoScorer
  /\ classifier = NoClassifier
  /\ manifest_file \in {FileWith(c, c, FALSE, 0) :
                          c \in {Absent, Complete(EarlierManifest)}}
  /\ workers = [p \in Workers |-> NoWorker]

\* main: manifest = load_manifest(), then the early return when the
\* directory holds no document.  Only FileNotFoundError is caught: on a file
\* that holds no JSON text json.load raises out of main
Load(p) ==
  /\ workers[p].pc = "idle"
  /\ workers' =
       [workers EXCEPT ![p] =
          IF manifest_file.state \in {"empty", "torn"}
          THEN Stopped("dead")
          ELSE [pc       |-> IF pdf_files = <<>> THEN "done" ELSE "loop",
                manifest |-> IF manifest_file.state = "absent"
                             THEN EmptyMap ELSE manifest_file.entries,
                idx      |-> 1,
                early    |-> ~ manifest_file.saving]]
  /\ UNCHANGED <<driver, scorer, classifier, manifest_file>>

\* What one iteration of main's loop leaves in the manifest: the entry
\* process_pdf assigns to a scanned document, the entry of main's handler
\* when an exception leaves process_pdf, and nothing otherwise
ManifestAfter(m, pdf, time, err, e) ==
  IF ShouldSkip(m, pdf, FALSE) THEN m
  ELSE IF is_image_based_pdf(pdf, err) THEN Put(m, pdf, ScannedEntry(pdf, time))
  ELSE IF e # "none" /\ ~ PlumberCatches(e) /\ MainCatches(e)
       THEN Put(m, pdf, ErrorEntry(pdf, time, e))
  ELSE m

\* main: one iteration of the loop over pdf_files
Visit(p, err, e) ==
  /\ workers[p].pc = "loop"
  /\ workers[p].idx <= Len(pdf_files)
  /\ workers' =
       [workers EXCEPT
          ![p].manifest = ManifestAfter(@, pdf_files[workers[p].idx], p, err, e),
          ![p].idx = @ + 1]
  /\ UNCHANGED <<driver, scorer, classifier, manifest_file>>

\* save_manifest: open(PROCESSED_MANIFEST, "w") truncates the file
Open(p) ==
  /\ workers[p].pc = "loop"
  /\ workers[p].idx > Len(pdf_files)
  /\ manifest_file' = FileWith(Truncated, manifest_file.prior, TRUE,
                               manifest_file.writer)
  /\ workers' = [workers EXCEPT ![p].pc = "opened"]
  /\ UNCHANGED <<driver, scorer, classifier>>

\* Writing n lines at the start of the file: what the other run wrote
\* beyond them since this run's open stays
Overwrite(content, n) ==
  IF manifest_file.size > n THEN Torn(manifest_file.size) ELSE content

\* save_manifest: json.dump writes the text and the file is closed
Dump(p) ==
  /\ workers[p].pc = "opened"
  /\ manifest_file' =
       FileWith(Overwrite(Complete(workers[p].manifest), Lines(workers[p].manifest)),
                manifest_file.prior, TRUE, p)
  /\ workers' = [workers EXCEPT ![p].pc = "done"]
  /\ UNCHANGED <<driver, scorer, classifier>>

\* The process is terminated in the loop, or between open and json.dump
Crash(p) ==
  /\ workers[p].pc \in {"loop", "opened"}
  /\ workers' = [workers EXCEPT ![p] = Stopped("killed")]
  /\ UNCHANGED <<driver, scorer, classifier, manifest_file>>

\* The process is terminated when some lines of the text, not all, have
\* reached the file
CrashInDump(p) ==
  /\ workers[p].pc = "opened"
  /\ \E n \in 1..(Lines(workers[p].manifest) - 1) :
       manifest_file' = FileWith(Overwrite(Torn(n), n), manifest_file.prior,
                                 TRUE, manifest_file.writer)
  /\ workers' = [workers EXCEPT ![p] = Stopped("killed")]
  /\ UNCHANGED <<driver, scorer, classifier>>

NextOverlap ==
  \/ \E p \in Workers : Load(p)
  \/ \E p \in Workers, err \in BOOLEAN, e \in {"none"} \cup Exceptions : Visit(p, err, e)
  \/ \E p \in Workers : Open(p)
  \/ \E p \in Workers : Dump(p)
  \/ \E p \in Workers : Crash(p)
  \/ \E p \in Workers : CrashInDump(p)

SpecOverlap == InitOverlap /\ [][NextOverlap]_vars

(***************************************************************************)
(* Properties.                                                             *)
(***************************************************************************)
CountOf(seq, x) == Cardinality({i \in 1..Len(seq) : seq[i] = x})

RunCompleted == pc = "done" /\ runlog.saved

\* The documents main has finished with in the current run
Finished == {pdf_files[i] : i \in 1..(idx - 1)}

\* C1: a second run over the same input without --force (no I/O error in
\* either run) skips every document, calls process_pdf for none, and leaves
\* the durable manifest and all output files as the first run left them.
C1_SecondRunIsNoOp ==
  (pc = "done" /\ now >= 2 /\ ~ args.force /\ nfaults = 0) =>
     /\ stats.skipped = Len(pdf_files)
     /\ runlog.invoked = {}
     /\ manifest_exists = runlog.prev.exists
     /\ disk_manifest = runlog.prev.disk
     /\ json_files = runlog.prev.json
     /\ csv_files = runlog.prev.csv

\* C2: after a completed run the saved manifest holds, for every document
\* process_pdf returned an outcome for, exactly that outcome under the
\* document's stem.
C2_ManifestHoldsOutcome ==
  RunCompleted =>
     \A d \in DOMAIN runlog.outcome :
        d \in DOMAIN disk_manifest /\ disk_manifest[d] = runlog.outcome[d]

\* C3: without --force a document whose stem is in the manifest loaded at run
\* start is never handed to process_pdf: its entry stays as loaded, no JSON
\* or CSV file of it is written, and the skipped counter counts exactly
\* these documents.
C3_SkipChangesNothing ==
  ~ args.force =>
     /\ \A d \in Finished \cap DOMAIN runlog.loaded :
          /\ d \notin runlog.invoked
          /\ d \in DOMAIN manifest /\ manifest[d] = runlog.loaded[d]
          /\ d \notin runlog.wrote_json
          /\ \A k \in runlog.wrote_csv : k[1] # d
          /\ (d \in DOMAIN json_files <=> d \in DOMAIN runlog.prev.json)
          /\ (d \in DOMAIN json_files => json_files[d] = runlog.prev.json[d])
     /\ stats.skipped = Cardinality(Finished \cap DOMAIN runlog.loaded)
     /\ stats.processed + stats.no_tables + stats.failed
          = Cardinality(Finished \ DOMAIN runlog.loaded)

C3_Witness ==
  /\ attempt.state = "skipped"
  /\ ~ args.force
  /\ "error" \in DOMAIN manifest[attempt.stem]
  /\ stats.skipped = 1

ScannedEntriesEmpty(m) ==
  \A d \in DOMAIN m :
     ("is_scanned" \in DOMAIN m[d] /\ m[d].is_scanned) =>
        /\ m[d].num_tables = 0
        /\ m[d].quality_scores = <<>>
        /\ m[d].has_tables = FALSE
        /\ m[d].extraction_method = Null

\* C4: in the in-memory and in the saved manifest every entry with
\* is_scanned = true has num_tables = 0, no quality score, has_tables = false
\* and a null extraction method.
C4_ScannedHasNoTables ==
  ScannedEntriesEmpty(manifest) /\ ScannedEntriesEmpty(disk_manifest)

C4_Witness ==
  \E d \in DOMAIN disk_manifest :
     "is_scanned" \in DOMAIN disk_manifest[d] /\ disk_manifest[d].is_scanned

BackendCalls == {"pdfplumber", "camelot_lattice", "camelot_stream"}

BackendInvoked == \E i \in 1..Len(attempt.calls) : attempt.calls[i] \in BackendCalls

\* C5: a backend is invoked only after the classifier returned text-bearing,
\* and when the classifier reports the document as scanned no backend is
\* invoked in that attempt and the outcome has is_scanned = true,
\* num_tables = 0 and a null extraction method.
C5_ClassifierGatesBackends ==
  /\ BackendInvoked => \A i \in 1..Len(attempt.cls) : attempt.cls[i] = FALSE
  /\ (attempt.state = "returned" /\ \E i \in 1..Len(attempt.cls) : attempt.cls[i]) =>
        /\ ~ BackendInvoked
        /\ runlog.outcome[attempt.stem].is_scanned
        /\ runlog.outcome[attempt.stem].num_tables = 0
        /\ runlog.outcome[attempt.stem].extraction_method = Null

\* The primary backend read the document and found a grid scoring at least
\* the floor
PrimaryFoundCandidate ==
  /\ attempt.perr = "none"
  /\ \E p \in 1..Len(Doc(attempt.stem).pages) :
        \E i \in 1..Len(Doc(attempt.stem).pages[p].tables) :
           compute_table_quality(Doc(attempt.stem).pages[p].tables[i], p) >= TQS_THRESHOLD

PrimaryReturned == attempt.perr \in {"none", "FileNotFoundError"}

ExtractionOver == pc = "finish" \/ attempt.state = "returned"

\* C6: for a text-bearing document the fallback backend runs exactly once
\* when the primary backend returned no candidate scoring 0.5 or more, never
\* when it returned one (even if none reaches 0.6), and never before the
\* primary backend.
C6_FallbackTrigger ==
  /\ CountOf(attempt.calls, "pdfplumber") <= 1
  /\ CountOf(attempt.calls, "camelot_lattice") <= 1
  /\ \A i \in 1..Len(attempt.calls) :
        attempt.calls[i] = "camelot_lattice" =>
           \E j \in 1..(i - 1) : attempt.calls[j] = "pdfplumber"
  /\ (ExtractionOver /\ PrimaryReturned) =>
        CountOf(attempt.calls, "camelot_lattice") = (IF PrimaryFoundCandidate THEN 0 ELSE 1)

C6_Witness ==
  /\ attempt.state = "returned"
  /\ attempt.stem = "lat"
  /\ attempt.perr = "none"
  /\ CountOf(attempt.calls, "camelot_lattice") = 1

\* The fallback backend ran and read the document without an error
FallbackRan == attempt.ferr = "none" /\ ExtractionOver

LatticeYields ==
  \E i \in 1..Len(Doc(attempt.stem).lattice) : ~ FrameEmpty(Doc(attempt.stem).lattice[i].df)

\* C7: when the fallback backend runs and its lattice mode yields no
\* non-empty grid, the stream mode is tried next, and the candidates are
\* those of the first mode that yielded a non-empty grid.
C7_StreamAfterLattice ==
  FallbackRan =>
     /\ ~ LatticeYields => CountOf(attempt.calls, "camelot_stream") = 1
     /\ pc = "finish" =>
          tables = FrameCandidates(IF LatticeYields THEN Doc(attempt.stem).lattice
                                   ELSE Doc(attempt.stem).stream, now)

\* C8: an error raised while a backend opens or reads the document stays
\* inside the backend, which returns no candidate; after a failing primary
\* backend the fallback backend is still attempted.
C8_BackendErrorsContained ==
  /\ exc = "none" /\ attempt.state # "raised"
  /\ (attempt.perr \in Exceptions /\ ExtractionOver) =>
        CountOf(attempt.calls, "camelot_lattice") = 1

\* C9 as claimed: for every list of documents main visits all of them in
\* order, lets no error escape the loop, and then saves the manifest.
C9_VisitsAllThenSaves ==
  /\ pc # "aborted"
  /\ runlog.visited = SubSeq(pdf_files, 1, Len(runlog.visited))
  /\ pc = "done" /\ now >= 1 => runlog.visited = pdf_files /\ runlog.saved

\* C9 amended: the same for every list that holds at least one document; for
\* an empty list main returns before the loop and does not save the manifest.
C9_VisitsAllThenSavesNonEmpty ==
  /\ pc # "aborted"
  /\ Len(runlog.visited) <= Len(pdf_files)
  /\ runlog.visited = SubSeq(pdf_files, 1, Len(runlog.visited))
  /\ pc = "done" /\ now >= 1 =>
        /\ runlog.visited = pdf_files
        /\ runlog.saved <=> pdf_files # <<>>

C9_Witness ==
  /\ RunCompleted
  /\ now = 1
  /\ Len(pdf_files) = 2
  /\ stats.failed = 1
  /\ pdf_files[1] \in DOMAIN disk_manifest
  /\ "error" \in DOMAIN disk_manifest[pdf_files[1]]

\* C10: when writing the JSON record of a document fails, the run still
\* completes and the document's manifest entry has success = false and
\* carries the error.
C10_WriteFailureRecorded ==
  RunCompleted =>
     \A d \in runlog.wfailed :
        /\ d \in DOMAIN disk_manifest
        /\ disk_manifest[d].success = FALSE
        /\ "error" \in DOMAIN disk_manifest[d]

\* The grid a candidate was scored on
GridOf(t) == IF t.method = "camelot" THEN t.table.data ELSE t.table

\* C11: every candidate in the list extract_tables holds carries the score
\* compute_table_quality gives its grid on its page, and that score is at
\* least the floor 0.5.
C11_CandidatesPassFloor ==
  \A i \in 1..Len(tables) :
     /\ tables[i].quality_score = compute_table_quality(GridOf(tables[i]), tables[i].page)
     /\ tables[i].quality_score >= TQS_THRESHOLD

C11_Witness ==
  /\ pc = "finish"
  /\ attempt.stem = "mix"
  /\ Len(tables) = 3
  /\ \E i \in 1..Len(tables) : tables[i].quality_score < QUALITY_HIGH

\* The text-bearing document last visited got its outcome from process_pdf
TextOutcome ==
  /\ attempt.state = "returned"
  /\ attempt.stem \in DOMAIN runlog.outcome
  /\ ~ runlog.outcome[attempt.stem].is_scanned

\* The collected candidates scoring at least the high threshold
HighCollected == {i \in 1..Len(attempt.collected) :
                    attempt.collected[i].quality_score >= QUALITY_HIGH}

\* The CSV files written in this run for the document last visited
CsvWritten == {k \in runlog.wrote_csv : k[1] = attempt.stem}

\* C12: the outcome of a document counts and lists exactly its collected
\* candidates scoring 0.6 or more, and the JSON record and the CSV files
\* written for it hold none scoring less.
C12_OnlyHighAccepted ==
  TextOutcome =>
     LET outcome == runlog.outcome[attempt.stem]
     IN  /\ outcome.num_tables = Cardinality(HighCollected)
         /\ Len(outcome.quality_scores) = Cardinality(HighCollected)
         /\ \A i \in 1..Len(outcome.quality_scores) :
               outcome.quality_scores[i] >= QUALITY_HIGH
         /\ Cardinality(CsvWritten) <= Cardinality(HighCollected)
         /\ attempt.stem \in runlog.wrote_json =>
               /\ HighCollected # {}
               /\ Len(json_files[attempt.stem].tables) <= Cardinality(HighCollected)
               /\ \A i \in 1..Len(json_files[attempt.stem].tables) :
                     json_files[attempt.stem].tables[i].quality_score >= QUALITY_HIGH

C12_Witness ==
  /\ TextOutcome
  /\ attempt.stem = "mix"
  /\ Len(attempt.collected) = 3
  /\ runlog.outcome[attempt.stem].num_tables = 2
  /\ attempt.stem \in runlog.wrote_json
  /\ attempt.stem \in DOMAIN json_files
  /\ Len(json_files[attempt.stem].tables) = 2
  /\ Cardinality(CsvWritten) = 2

\* Every collected candidate scores in [0.5, 0.6), and there is one
AllBetweenThresholds ==
  /\ attempt.collected # <<>>
  /\ \A i \in 1..Len(attempt.collected) :
        /\ attempt.collected[i].quality_score >= TQS_THRESHOLD
        /\ attempt.collected[i].quality_score < QUALITY_HIGH

Scored == scorer.step # "input" /\ scorer.step # "idle"

HasNoneRow(grid) == \E r \in 1..Len(grid) : grid[r] = NoneRow

\* A cell that is absent or blank after trimming
ClaimedEmptyCell(cell) == cell = None \/ Strip(Str(cell)) = <<>>

\* A row in which more than half the cells are empty in that sense
ClaimedClusteredRow(row) ==
  2 * Cardinality({c \in 1..Len(row) : ClaimedEmptyCell(row[c])}) > Len(row)

\* 0.4*density + 0.3*consistency + 0.3*header - 0.2*cluster_penalty
\* - (0.4 on page 1), rounded to 2 decimals and clamped, in hundredths
ClaimedScore(grid, page_number) ==
  LET tc  == TotalCells(grid)
      n   == Len(grid)
      cd  == ConsistencyDen(grid)
      cl  == Cardinality({r \in 1..n : ClaimedClusteredRow(grid[r])})
      pen == IF page_number = 1 THEN 40 ELSE 0
      den == tc * cd * n
      num == 40 * NonEmptyCells(grid) * cd * n
             + 30 * n * n * tc * n
             + (10 * HeaderMatches(grid) - pen) * den
             - 20 * cl * tc * cd
      v   == RoundHalfEven(num, den)
  IN  IF v < 0 THEN 0 ELSE IF v > 100 THEN 100 ELSE v

\* C14: for every grid of at least 2 rows and at least one cell and every
\* page number the score is the claimed combination, with the cluster
\* penalty counting the rows in which more than half the cells are absent or
\* blank after trimming.
C14_ScoreFormula ==
  (Scored /\ Len(scorer.grid) >= 2 /\ ~ HasNoneRow(scorer.grid)
     /\ TotalCells(scorer.grid) > 0) =>
     \A p \in 1..MaxPage : scorer.score[p] = ClaimedScore(scorer.grid, p)

\* C15: for every grid and every page number the score s satisfies
\* 0.0 <= s <= 1.0.
C15_ScoreBounded ==
  /\ Scored => \A p \in 1..MaxPage : scorer.score[p] >= 0 /\ scorer.score[p] <= 100
  /\ scorer.step = "varied" =>
        \A p \in 1..MaxPage : scorer.other_score[p] >= 0 /\ scorer.other_score[p] <= 100

C15_Witness ==
  /\ Scored
  /\ scorer.grid = << <<X, E, E>>, <<None, None, X>>, <<>> >>
  /\ scorer.score[1] = 0
  /\ scorer.score[2] > 0

\* C16: on every page a grid of 0 rows or of 1 row scores exactly 0.0, and
\* the backend never returns it as a candidate.
C16_FewRowsScoreZero ==
  Len(scorer.grid) < 2 =>
     /\ Scored => \A p \in 1..MaxPage : scorer.score[p] = 0
     /\ \A i \in 1..Len(scorer.kept) : scorer.kept[i].table # scorer.grid

C16_Witness ==
  /\ scorer.step = "extracted"
  /\ scorer.grid = << <<Site, Species, Count>> >>
  /\ scorer.score[2] = 0
  /\ scorer.kept # <<>>

C19_MetricErrorScoresZero ==
  (Len(scorer.grid) >= 2 /\ HasNoneRow(scorer.grid)) =>
     /\ Scored => \A p \in 1..MaxPage : scorer.score[p] = 0
     /\ scorer.step \in {"extracted", "normalized"} =>
          /\ Len(scorer.kept) = MaxPage
          /\ \A p \in 1..MaxPage :
                /\ scorer.kept[p].table = GridRagged
                /\ scorer.kept[p].page = p
                /\ scorer.kept[p].quality_score = (IF p = 1 THEN 50 ELSE 90)

C19_Witness ==
  /\ scorer.step = "extracted"
  /\ scorer.grid = << <<Site, Species, Count>>, NoneRow, <<X, X, X>> >>
  /\ scorer.score[2] = 0
  /\ Len(scorer.kept) = MaxPage

\* C20: every table in a JSON record the writer wrote has rows of one
\* length, the largest row length of the candidate grid it was made of.
C20_WrittenTablesRectangular ==
  (TextOutcome /\ attempt.stem \in runlog.wrote_json
     /\ attempt.stem \in DOMAIN json_files /\ json_files[attempt.stem].complete) =>
     LET high == SelectSeq(attempt.collected, IsHigh)
         written == json_files[attempt.stem].tables
     IN  \A i \in 1..Len(written) :
            LET grid == GridOf(high[written[i].table_number])
                width == MaxSeq([r \in 1..Len(grid) |-> Len(grid[r])])
            IN  \A r \in 1..Len(written[i].table_data) :
                   Len(written[i].table_data[r]) = width

\* C23: in one attempt the classifier is invoked once, and an attempt whose
\* extraction was skipped because the document was judged scanned has an
\* outcome with is_scanned = true.
C23_ClassifiedOnce ==
  /\ CountOf(attempt.calls, "is_image_based_pdf") <= 1
  /\ (attempt.state = "returned" /\ \E i \in 1..Len(attempt.cls) : attempt.cls[i]) =>
        runlog.outcome[attempt.stem].is_scanned

\* main or process_pdf is at work on the document pdf_files[idx]
AtDocument == pc \notin {"idle", "done", "aborted"} /\ idx <= Len(pdf_files)

\* The entries of m, or the files of m, that do not belong to document d
Others(m, d) == {k \in DOMAIN m : k # d}

OthersCsv(m, d) == {k \in DOMAIN m : k[1] # d}

\* The outcome of the text-bearing document last visited is the one
\* computed from the document, the errors met and the time
OutcomeFromDocument ==
  TextOutcome =>
     LET primary  == extract_tables_with_pdfplumber(attempt.stem, attempt.perr, now)
         fallback == extract_tables_with_camelot(attempt.stem, attempt.ferr, now)
         expected == IF Len(attempt.cls) = 2 /\ attempt.cls[2] THEN <<>>
                     ELSE IF primary # <<>> THEN primary ELSE fallback
     IN  /\ attempt.collected = expected
         /\ runlog.outcome[attempt.stem]
              = TextStatus(attempt.stem, SelectSeq(expected, IsHigh), now)

\* C25: a step taken for a document changes no manifest entry, no JSON record
\* and no CSV file of another document, and wherever a step starts the
\* outcome of the text-bearing document last visited is the one computed
\* from the document, the errors met and the time alone.
C25_DocumentsIndependent ==
  [][/\ OutcomeFromDocument
     /\ AtDocument =>
          /\ Others(manifest', pdf_name) = Others(manifest, pdf_name)
          /\ \A d \in Others(manifest, pdf_name) : manifest'[d] = manifest[d]
          /\ Others(json_files', pdf_name) = Others(json_files, pdf_name)
          /\ \A d \in Others(json_files, pdf_name) : json_files'[d] = json_files[d]
          /\ OthersCsv(csv_files', pdf_name) = OthersCsv(csv_files, pdf_name)
          /\ \A k \in OthersCsv(csv_files, pdf_name) : csv_files'[k] = csv_files[k]]_vars

C25_Witness ==
  /\ pc = "loop"
  /\ idx = 3
  /\ pdf_files = <<"scan", "mix">>
  /\ "scan" \in DOMAIN manifest
  /\ "mix" \in DOMAIN json_files
  /\ TextOutcome
  /\ runlog.outcome["mix"].num_tables = 2

\* The documents of this run that main skipped, and those whose processing
\* raised
SkippedDocs == IF args.force THEN {} ELSE Finished \cap DOMAIN runlog.loaded

RaisedDocs == {d \in Finished \ SkippedDocs : d \notin DOMAIN runlog.outcome}

WithTables == {d \in DOMAIN runlog.outcome : runlog.outcome[d].has_tables}

\* C27: between two documents and at the end of a run every document main
\* has finished with incremented exactly one counter: skipped if it was
\* skipped, failed if its processing raised (and its error entry is in the
\* manifest), processed if its outcome has tables and no_tables otherwise
\* (scanned or without accepted table); at the end of a run over at least
\* one document the four counters add up to the number of documents.
C27_CountersAddUp ==
  /\ pc # "aborted"
  /\ (pc \in {"loop", "done"} /\ now >= 1) =>
        /\ stats.skipped = Cardinality(SkippedDocs)
        /\ stats.failed = Cardinality(RaisedDocs)
        /\ stats.processed = Cardinality(WithTables)
        /\ stats.no_tables = Cardinality(DOMAIN runlog.outcome \ WithTables)
        /\ DOMAIN runlog.outcome \subseteq Finished \ SkippedDocs
        /\ \A d \in RaisedDocs :
              /\ d \in DOMAIN manifest
              /\ "error" \in DOMAIN manifest[d]
              /\ manifest[d].processed_date = now
        /\ stats.processed + stats.no_tables + stats.skipped + stats.failed
             = Cardinality(Finished)
  /\ (RunCompleted /\ pdf_files # <<>>) =>
        stats.processed + stats.no_tables + stats.skipped + stats.failed
          = Len(pdf_files)

C27_Witness ==
  /\ RunCompleted
  /\ Len(pdf_files) = 2
  /\ stats.failed = 1
  /\ stats.no_tables = 1
  /\ \E d \in DOMAIN runlog.outcome : runlog.outcome[d].is_scanned

\* The JSON record of the document last visited, written whole in this
\* attempt
RecordWritten ==
  /\ TextOutcome
  /\ attempt.werr = "none"
  /\ attempt.stem \in DOMAIN json_files
  /\ json_files[attempt.stem].complete

\* C28: in the JSON record written for a document num_tables is the number
\* of entries of its tables list and the num_tables of the outcome, and the
\* entries are numbered 1..num_tables without gaps.
C28_RecordCountsItsTables ==
  RecordWritten =>
     LET record == json_files[attempt.stem]
     IN  /\ record.num_tables = Len(record.tables)
         /\ record.num_tables = runlog.outcome[attempt.stem].num_tables
         /\ \A i \in 1..Len(record.tables) : record.tables[i].table_number = i

\* C29: the JSON path of saved_files is listed only if the record was
\* written in this attempt, and every CSV path listed names a CSV file
\* written in this attempt, so without --save-csv no CSV path is listed.
C29_SavedFilesWereWritten ==
  (TextOutcome /\ runlog.outcome[attempt.stem].saved_files # <<>>) =>
     LET saved == runlog.outcome[attempt.stem].saved_files[1]
     IN  /\ attempt.werr = "none"
         /\ saved.json \in runlog.wrote_json
         /\ \A i \in 1..Len(saved.csv) : saved.csv[i] \in runlog.wrote_csv
         /\ ~ args.save_csv => saved.csv = <<>>

\* C24: the clustering penalty counts a row as clustered when more than
\* half of its cells are empty in the sense of the density metric (null, or
\* blank after trimming).
C24_ClusteringUsesDensityEmptiness ==
  (Scored /\ Len(scorer.grid) >= 2 /\ ~ HasNoneRow(scorer.grid)) =>
     scorer.clusters
       = Cardinality({r \in 1..Len(scorer.grid) : ClaimedClusteredRow(scorer.grid[r])})

\* Density, consistency and header metric are 1 and the cluster penalty is 0
Perfect(grid) ==
  /\ TotalCells(grid) > 0
  /\ NonEmptyCells(grid) = TotalCells(grid)
  /\ ConsistencyNum(grid) = ConsistencyDen(grid)
  /\ HeaderMatches(grid) = 3
  /\ EmptyClusters(grid) = 0

\* 0.4*density + 0.3*consistency + 0.3*header - 0.2*cluster_penalty >= 0.995
NearPerfect(grid) ==
  /\ Len(grid) >= 2
  /\ ~ HasNoneRow(grid)
  /\ TotalCells(grid) > 0
  /\ LET tc  == TotalCells(grid)
         n   == Len(grid)
         cd  == ConsistencyDen(grid)
     IN  2 * (40 * NonEmptyCells(grid) * cd * n + 30 * n * n * tc * n
              + 10 * HeaderMatches(grid) * tc * cd * n
              - 20 * EmptyClusters(grid) * tc * cd)
           >= 199 * tc * cd * n

\* C30 as claimed: a grid scores at most 0.60 on page 1, and reaches 0.60
\* only when density, consistency and header metric are 1 and the cluster
\* penalty is 0.
C30_PageOneNeedsPerfection ==
  Scored =>
     /\ scorer.score[1] <= 60
     /\ scorer.score[1] >= QUALITY_HIGH => Perfect(scorer.grid)

\* C30 amended: a grid scores at most 0.60 on page 1, and reaches 0.60
\* exactly when its value before the page penalty is at least 0.995, which
\* every perfect grid does.
C30_PageOneNeedsNearPerfection ==
  Scored =>
     /\ scorer.score[1] <= 60
     /\ scorer.score[1] >= QUALITY_HIGH <=> NearPerfect(scorer.grid)
     /\ (Len(scorer.grid) >= 2 /\ ~ HasNoneRow(scorer.grid) /\ Perfect(scorer.grid)) =>
           scorer.score[1] = 60

C30_Witness ==
  /\ Scored
  /\ scorer.grid = GridLong
  /\ scorer.score[1] = 60
  /\ ~ Perfect(scorer.grid)

Classified == classifier.step = "classified"

\* The page yields text with a character that is not whitespace
YieldsText(page) ==
  /\ page.text # None
  /\ \E k \in 1..Len(page.text) : page.text[k] \notin Whitespace

\* C22: is_image_based_pdf returns text-bearing exactly when one of the
\* first two pages (of all pages, if fewer) yields text that is not empty
\* after trimming and no error is raised before that; it returns scanned
\* otherwise, so for zero pages, for text from page 3 on only, and whenever
\* opening or reading raises; pages after the second never matter.
C22_ClassifierSamplesTwoPages ==
  Classified =>
    LET pages == classifier.pages
        sampled == {i \in DOMAIN pages : i <= 2}
    IN  /\ ~ classifier.scanned <=>
              /\ ~ classifier.raised
              /\ \E i \in sampled : YieldsText(pages[i])
        /\ Len(pages) = 0 => classifier.scanned
        /\ classifier.raised => classifier.scanned
        /\ classifier.scanned =
              ImageBased(SubSeq(pages, 1, Min(2, Len(pages))), classifier.fail)

\* A document whose only text is on page 3 has been classified as scanned
C22_Witness ==
  /\ Classified
  /\ Len(classifier.pages) = 3
  /\ YieldsText(classifier.pages[3])
  /\ ~ YieldsText(classifier.pages[1])
  /\ ~ YieldsText(classifier.pages[2])
  /\ ~ classifier.raised
  /\ classifier.scanned

\* Only the first run has started, and it was terminated or has returned
LoneRunOver ==
  /\ workers[2].pc = "idle"
  /\ workers[1].pc \in {"killed", "done"}

\* The manifest file is what it was before the runs
AsBefore ==
  /\ manifest_file.state = manifest_file.prior.state
  /\ manifest_file.entries = manifest_file.prior.entries

\* The manifest file is the complete text of the run's manifest
SavedBy(p) ==
  /\ workers[p].pc = "done"
  /\ manifest_file.state = "complete"
  /\ manifest_file.entries = workers[p].manifest

\* C21: wherever a run is terminated, before, during or after its save,
\* the manifest file is either the manifest that existed before the run or
\* the complete manifest of the run, never empty or partly written, and no
\* entry of an earlier run is lost.
C21_SaveIsAtomic ==
  LoneRunOver =>
    /\ AsBefore \/ SavedBy(1)
    /\ \A d \in DOMAIN manifest_file.prior.entries :
          /\ manifest_file.state = "complete"
          /\ d \in DOMAIN manifest_file.entries
          /\ manifest_file.entries[d] = manifest_file.prior.entries[d]

\* Both runs loaded the manifest before either began to save, both have
\* returned from main, and a save took place
BothFinished ==
  /\ \A p \in Workers : workers[p].pc = "done" /\ workers[p].early
  /\ manifest_file.writer \in Workers

\* C26: when two runs overlap (both load the manifest before either saves)
\* and both have finished, the manifest file is exactly the in-memory
\* manifest of the run that saved last; the entries only the other run
\* added are lost.
C26_LastSaverWins ==
  BothFinished =>
    /\ manifest_file.state = "complete"
    /\ manifest_file.entries = workers[manifest_file.writer].manifest

=============================================================================
